---- MODULE Spec2Model ----
(***************************************************************************)
(* Model of dashboard_google_play.py: the Google Play Store dashboard.     *)
(*                                                                         *)
(* One run of the script is four steps: load_and_transform_data (behind    *)
(* st.cache_data), the sidebar widgets, the filter pass and the summary    *)
(* statistics.  A widget interaction reruns the script from the top.       *)
(*                                                                         *)
(* Numbers.  pandas holds the numeric columns as floats; here a number is  *)
(* an integer counting units of 1/Scale (fixed point, FracDigits decimal   *)
(* places), so "4.2" is 42 when Scale = 10.  NaN (pandas' null) is Null.   *)
(* Every comparison with NaN is false, as in pandas.                       *)
(* Strings are sequences of one-character strings.                         *)
(***************************************************************************)
EXTENDS Integers, Sequences, FiniteSets, TLC

VARIABLES
    file,         \* googleplaystore.csv: whether it can be read, and its rows
    cache,        \* st.cache_data's entry for load_and_transform_data
    df,           \* the module-level normalized table
    sel,          \* the sidebar widgets' values and the parameters they were built with
    filtered_df,  \* the filtered set of the current run
    stats,        \* the summary statistics shown by the current run
    pc,           \* position of the script run
    err,          \* the exception that ended the run, or "none"
    raw,          \* a raw Installs cell under test
    parsed        \* the value the Installs transformation gave it

vars == <<file, cache, df, sel, filtered_df, stats, pc, err, raw, parsed>>

\* ---------------------------------------------------------------- bounds

\* Most rows in a raw file.
MaxRows == 2
\* Longest raw Installs cell enumerated exhaustively.
MaxStrLen == 4
\* Decimal places a number of the model carries.
FracDigits == 1

\* ------------------------------------------------------------- constants

\* value=(0.0, min(50.0, max_price)) of the price slider
DefaultMaxPrice == 50
\* value=(3.0, 5.0), min_value=0.0, max_value=5.0 of the rating slider
DefaultMinRating == 3
MaxRating == 5
\* step of the installs slider
InstallsStep == 1000000

\* ----------------------------------------------------------- fixed point

RECURSIVE Pow10(_)
Pow10(n) == IF n = 0 THEN 1 ELSE 10 * Pow10(n - 1)

Scale == Pow10(FracDigits)

\* NaN, the value errors='coerce' gives an unparseable cell: an integer no
\* cell of the model denotes, so that it compares with numbers.
Null == -2147483647
\* What a statistic the run did not compute shows.
Undefined == "Undefined"
NotComputed == <<>>

Digits == {"0", "1", "2", "3", "4", "5", "6", "7", "8", "9"}

DigitVal(c) ==
    CASE c = "0" -> 0 [] c = "1" -> 1 [] c = "2" -> 2 [] c = "3" -> 3
      [] c = "4" -> 4 [] c = "5" -> 5 [] c = "6" -> 6 [] c = "7" -> 7
      [] c = "8" -> 8 [] c = "9" -> 9

\* ------------------------------------------------------ string operations

\* Series.str.replace(ch, '', regex=False): every occurrence of ch removed.
StrReplace(s, ch) == SelectSeq(s, LAMBDA c : c # ch)

\* Removal of one trailing ch only.
StripTrailing(s, ch) ==
    IF Len(s) > 0 /\ s[Len(s)] = ch THEN SubSeq(s, 1, Len(s) - 1) ELSE s

RECURSIVE DigitsValue(_)
DigitsValue(s) ==
    IF s = <<>> THEN 0
    ELSE 10 * DigitsValue(SubSeq(s, 1, Len(s) - 1)) + DigitVal(s[Len(s)])

\* The unsigned part of a numeric literal: digits with at most one ".", and
\* at least one digit.
IsDecimal(s) ==
    /\ \A i \in 1..Len(s) : s[i] \in Digits \cup {"."}
    /\ Cardinality({i \in 1..Len(s) : s[i] = "."}) <= 1
    /\ \E i \in 1..Len(s) : s[i] \in Digits

DecimalValue(s) ==
    LET dots == {i \in 1..Len(s) : s[i] = "."}
        dot == IF dots = {} THEN Len(s) + 1 ELSE CHOOSE i \in dots : TRUE
        ip == SubSeq(s, 1, dot - 1)
        fp == SubSeq(s, dot + 1, Len(s))
        kept == SubSeq(fp, 1, IF Len(fp) < FracDigits THEN Len(fp) ELSE FracDigits)
    IN DigitsValue(ip) * Scale + DigitsValue(kept) * Pow10(FracDigits - Len(kept))

\* Number of decimal places a cell would need (0 when it has no ".").
FracLen(s) ==
    LET dots == {i \in 1..Len(s) : s[i] = "."}
    IN IF dots = {} THEN 0 ELSE Len(s) - (CHOOSE i \in dots : TRUE)

\* pd.to_numeric(..., errors='coerce') on one string cell: an optionally
\* signed decimal literal gives its value, anything else NaN.
ToNumeric(s) ==
    LET signed == Len(s) > 0 /\ s[1] \in {"+", "-"}
        body == IF signed THEN Tail(s) ELSE s
    IN IF ~IsDecimal(body) THEN Null
       ELSE IF signed /\ s[1] = "-" THEN 0 - DecimalValue(body)
       ELSE DecimalValue(body)

\* ------------------------------------------------- column transformations

\* Faulty variant: only a trailing '+' is stripped.
ParseInstallsTrailingOnly(s) == ToNumeric(StrReplace(StripTrailing(s, "+"), ","))

\* Lines 25-28: Installs.
ParseInstalls(s) == ToNumeric(StrReplace(StrReplace(s, "+"), ","))

\* Lines 31-33: Price.
ParsePrice(s) == ToNumeric(StrReplace(s, "$"))

\* Lines 43-46: Size.
ParseSize(s) == ToNumeric(StrReplace(StrReplace(s, "M"), "k"))

\* Faulty variant: a zero price counts as Paid.
DeriveTypeNonNegative(price) == IF price # Null /\ price >= 0 THEN "Paid" ELSE "Free"

\* Line 39: 'Paid' if x > 0 else 'Free'; NaN > 0 is False.
DeriveType(price) == IF price # Null /\ price > 0 THEN "Paid" ELSE "Free"

\* ------------------------------------------------------------ raw input

\* Raw cells of the numeric columns, as the CSV holds them.
S_1M      == <<"1", ",", "0", "0", "0", ",", "0", "0", "0", "+">>
S_2M      == <<"2", ",", "0", "0", "0", ",", "0", "0", "0", "+">>
S_0plus   == <<"0", "+">>
S_Free    == <<"F", "r", "e", "e">>
S_Everyone == <<"E", "v", "e", "r", "y", "o", "n", "e">>
S_Varies  == <<"V", "a", "r", "i", "e", "s">>
S_19M     == <<"1", "9", "M">>
S_5k      == <<"5", "k">>
S_0       == <<"0">>
S_d0      == <<"$", "0">>
S_d1_5    == <<"$", "1", ".", "5">>
S_4_2     == <<"4", ".", "2">>
S_3_0     == <<"3", ".", "0">>
S_5_0     == <<"5", ".", "0">>
S_empty   == <<>>

RawRow(app, cat, rating, installs, size, price) ==
    [App |-> app, Category |-> cat, Rating |-> rating, Installs |-> installs,
     Size |-> size, Price |-> price]

\* The rows a raw file is made of: a free app; the same app with its price
\* written "$0"; a paid app whose size is not a number; a row without
\* rating; a shifted row whose Installs and Price hold text; a second paid
\* app.
RowFree      == RawRow("a", "GAME",  S_4_2,   S_1M,    S_19M,    S_0)
RowFreeDollar == RawRow("a", "GAME", S_4_2,   S_1M,    S_19M,    S_d0)
RowNoSize    == RawRow("b", "TOOLS", S_3_0,   S_0plus, S_Varies, S_d1_5)
RowNoRating  == RawRow("c", "TOOLS", S_empty, S_2M,    S_5k,     S_d1_5)
RowShifted   == RawRow("d", "GAME",  S_4_2,   S_Free,  S_19M,    S_Everyone)
RowPaid      == RawRow("e", "GAME",  S_5_0,   S_2M,    S_19M,    S_d1_5)

RawRows == {RowFree, RowFreeDollar, RowNoSize, RowNoRating, RowShifted, RowPaid}

RECURSIVE SeqsUpTo(_, _)
SeqsUpTo(S, n) ==
    IF n = 0 THEN {<<>>}
    ELSE LET shorter == SeqsUpTo(S, n - 1)
         IN shorter \cup {Append(t, x) : t \in shorter, x \in S}

RawTables == SeqsUpTo(RawRows, MaxRows)

\* ----------------------------------------------------------- the loader

\* Line 18, pd.read_csv: Rating is read as a float column (an empty cell is
\* NaN); Installs, Size and Price hold decorated text and stay strings.
ReadCsv(rows) ==
    [i \in 1..Len(rows) |-> [rows[i] EXCEPT !.Rating = ToNumeric(@)]]

\* Line 21, DataFrame.drop_duplicates(): a row equal in every column to an
\* earlier one is removed; the first occurrence stays, order is kept.
RECURSIVE DropDuplicates(_)
DropDuplicates(t) ==
    IF t = <<>> THEN <<>>
    ELSE LET init == DropDuplicates(SubSeq(t, 1, Len(t) - 1))
             last == t[Len(t)]
         IN IF \E i \in 1..Len(init) : init[i] = last THEN init
            ELSE Append(init, last)

\* Lines 25-46 on one row: Installs, Price, Type from the parsed Price, Size.
Transform(r) ==
    LET price == ParsePrice(r.Price)
    IN [App |-> r.App, Category |-> r.Category, Rating |-> r.Rating,
        Installs |-> ParseInstalls(r.Installs), Size |-> ParseSize(r.Size),
        Price |-> price, Type |-> DeriveType(price)]

\* Faulty variant: a null in any numeric column removes the row.
DropNaAnyColumn(t) ==
    SelectSeq(t, LAMBDA r : r.Installs # Null /\ r.Rating # Null
                            /\ r.Price # Null /\ r.Size # Null)

\* Line 49, dropna(subset=['Installs', 'Rating', 'Price']).
DropNa(t) ==
    SelectSeq(t, LAMBDA r : r.Installs # Null /\ r.Rating # Null /\ r.Price # Null)

\* Lines 17-56, load_and_transform_data on the rows of the file.
LoadAndTransform(rows) ==
    LET unique == DropDuplicates(ReadCsv(rows))
    IN DropNa([i \in 1..Len(unique) |-> Transform(unique[i])])

\* ------------------------------------------------------ column aggregates

Column(t, f) == {t[i][f] : i \in 1..Len(t)}

\* Series.max() / Series.min(): NaN on an empty column.
MaxOf(S) == IF S = {} THEN Null ELSE CHOOSE x \in S : \A y \in S : y <= x
MinOf(S) == IF S = {} THEN Null ELSE CHOOSE x \in S : \A y \in S : x <= y

RECURSIVE SumOf(_, _)
SumOf(t, f) == IF t = <<>> THEN 0 ELSE t[1][f] + SumOf(Tail(t), f)

\* Series.mean(): NaN on an empty column (the quotient is cut to the
\* model's decimal places).
MeanOf(t, f) == IF t = <<>> THEN Null ELSE SumOf(t, f) \div Len(t)

\* int(x) of a float: the fraction is cut, toward zero.
IntOf(x) == IF x >= 0 THEN (x \div Scale) * Scale ELSE 0 - (((0 - x) \div Scale) * Scale)

Min2(a, b) == IF a < b THEN a ELSE b

\* ---------------------------------------------------------- the widgets

NoSel ==
    [built |-> FALSE, category |-> "Todas", app_type |-> "Todos",
     price_range |-> <<0, 0>>, rating_range |-> <<0, 0>>,
     installs_range |-> <<0, 0>>,
     categories |-> {}, max_price |-> Null,
     min_installs |-> Null, max_installs |-> Null]

\* Lines 66-105: the options and slider bounds computed from df, and each
\* widget's value.  A widget keeps the user's value from the previous run
\* while it is built with the same parameters, and starts from its default
\* otherwise.
Widgets(old, t) ==
    LET categories == Column(t, "Category")
        max_price == MaxOf(Column(t, "Price"))
        min_installs == IntOf(MinOf(Column(t, "Installs")))
        max_installs == IntOf(MaxOf(Column(t, "Installs")))
        samePrice == old.built /\ old.max_price = max_price
        sameInst == /\ old.built
                    /\ old.min_installs = min_installs
                    /\ old.max_installs = max_installs
    IN [built |-> TRUE,
        category |-> IF old.built /\ old.categories = categories
                     THEN old.category ELSE "Todas",
        app_type |-> IF old.built THEN old.app_type ELSE "Todos",
        price_range |-> IF samePrice THEN old.price_range
                        ELSE <<0, Min2(DefaultMaxPrice * Scale, max_price)>>,
        rating_range |-> IF old.built THEN old.rating_range
                         ELSE <<DefaultMinRating * Scale, MaxRating * Scale>>,
        installs_range |-> IF sameInst THEN old.installs_range
                           ELSE <<min_installs, max_installs>>,
        categories |-> categories, max_price |-> max_price,
        min_installs |-> min_installs, max_installs |-> max_installs]

\* Positions the user can move a slider handle to.
Pairs(S) == {<<lo, hi>> : lo \in S, hi \in S} \cap {p \in S \X S : p[1] <= p[2]}

\* Price slider: between 0.0 and max_price; the handles are tried at 0, at
\* the prices of the table and at the default upper value.
PriceStops(w, t) ==
    {x \in {0, Min2(DefaultMaxPrice * Scale, w.max_price)} \cup Column(t, "Price") :
        0 <= x /\ x <= w.max_price}

\* Rating slider: between 0.0 and 5.0; the handles are tried at both ends
\* and at the default lower value.
RatingStops == {0, DefaultMinRating * Scale, MaxRating * Scale}

\* Installs slider: min_installs plus whole steps, up to max_installs, and
\* max_installs itself, where the upper handle starts.
InstallsStops(w) ==
    {w.min_installs + k * InstallsStep * Scale :
        k \in 0..((w.max_installs - w.min_installs) \div (InstallsStep * Scale))}
    \cup {w.max_installs}

\* The values one interaction with one widget can leave the sidebar in.
OneWidgetChanges(w, t) ==
    {[w EXCEPT !.category = c] : c \in {"Todas"} \cup w.categories}
    \cup {[w EXCEPT !.app_type = a] : a \in {"Todos", "Free", "Paid"}}
    \cup {[w EXCEPT !.price_range = r] : r \in Pairs(PriceStops(w, t))}
    \cup {[w EXCEPT !.rating_range = r] : r \in Pairs(RatingStops)}
    \cup {[w EXCEPT !.installs_range = r] : r \in Pairs(InstallsStops(w))}

\* ------------------------------------------------------- the filter pass

\* Faulty variant: the upper end of a range is excluded.
InRangeOpenAbove(x, range) == x # Null /\ x >= range[1] /\ x < range[2]

\* (col >= range[0]) & (col <= range[1]); both are False on NaN.
InRange(x, range) == x # Null /\ x >= range[1] /\ x <= range[2]

\* Faulty variant: the result is cut to its first row.
ApplyFiltersFirstRow(t, w) ==
    LET rows == SelectSeq(t, LAMBDA r :
                    /\ (w.category # "Todas" => r.Category = w.category)
                    /\ (w.app_type # "Todos" => r.Type = w.app_type)
                    /\ InRange(r.Price, w.price_range)
                    /\ InRange(r.Rating, w.rating_range)
                    /\ InRange(r.Installs, w.installs_range))
    IN IF rows = <<>> THEN rows ELSE <<rows[1]>>

\* Lines 108-123: a copy of the table, narrowed by category, then by type,
\* then by the three ranges at once.
ApplyFilters(t, w) ==
    LET copy == t
        byCategory == IF w.category # "Todas"
                      THEN SelectSeq(copy, LAMBDA r : r.Category = w.category)
                      ELSE copy
        byType == IF w.app_type # "Todos"
                  THEN SelectSeq(byCategory, LAMBDA r : r.Type = w.app_type)
                  ELSE byCategory
    IN SelectSeq(byType, LAMBDA r :
           /\ InRange(r.Price, w.price_range)
           /\ InRange(r.Rating, w.rating_range)
           /\ InRange(r.Installs, w.installs_range))

\* Faulty variant: the table itself is narrowed.
TableAfterFilterInPlace(t, w) == ApplyFilters(t, w)

\* Line 108, df.copy(): the pass works on a copy and df keeps its rows.
TableAfterFilter(t, w) == t

\* --------------------------------------------------- summary statistics

NoStats ==
    [computed |-> FALSE, raised |-> "none", count |-> 0, avg_rating |-> Null, total_installs |-> 0,
     paid_apps |-> 0, top_category |-> Undefined,
     most_expensive |-> NotComputed, best_rated |-> NotComputed]

CountWhere(t, f, v) == Cardinality({i \in 1..Len(t) : t[i][f] = v})

\* value_counts().index[0]: a most frequent category (which one, among
\* equally frequent ones, is left to the library).
TopCategories(t) ==
    {c \in Column(t, "Category") :
        \A d \in Column(t, "Category") :
            CountWhere(t, "Category", d) <= CountWhere(t, "Category", c)}

\* t[t[f] == t[f].max()] and .iloc[0] of it: the first row holding the maximum.
FirstAtMax(t, f) ==
    LET m == MaxOf(Column(t, f))
        i == CHOOSE k \in 1..Len(t) :
                 t[k][f] = m /\ \A j \in 1..(k - 1) : t[j][f] # m
    IN <<t[i].App, t[i][f]>>

\* Faulty variant: the detailed statistics are computed without the
\* len(filtered_df) > 0 guard; on an empty set index[0] raises IndexError.
SummaryUnguarded(t, top) ==
    [computed |-> TRUE, raised |-> IF t = <<>> THEN "IndexError" ELSE "none",
     count |-> Len(t),
     avg_rating |-> MeanOf(t, "Rating"),
     total_installs |-> SumOf(t, "Installs"),
     paid_apps |-> CountWhere(t, "Type", "Paid"),
     top_category |-> IF t = <<>> THEN Undefined ELSE top,
     most_expensive |-> IF t = <<>> THEN NotComputed ELSE FirstAtMax(t, "Price"),
     best_rated |-> IF t = <<>> THEN NotComputed ELSE FirstAtMax(t, "Rating")]

\* Lines 133-145 and 262-283: the four metrics, and under
\* len(filtered_df) > 0 the three detailed statistics.  No statement of
\* either block raises: f"{nan:.2f}" formats to 'nan'.
Summary(t, top) ==
    [computed |-> TRUE, raised |-> "none",
     count |-> Len(t),
     avg_rating |-> MeanOf(t, "Rating"),
     total_installs |-> SumOf(t, "Installs"),
     paid_apps |-> CountWhere(t, "Type", "Paid"),
     top_category |-> IF Len(t) > 0 THEN top ELSE Undefined,
     most_expensive |-> IF Len(t) > 0 THEN FirstAtMax(t, "Price") ELSE NotComputed,
     best_rated |-> IF Len(t) > 0 THEN FirstAtMax(t, "Rating") ELSE NotComputed]

\* ------------------------------------------------------------- the state

NoFile == [readable |-> FALSE, rows |-> <<>>]
NoCache == [present |-> FALSE, table |-> <<>>]

\* The state a session starts in, before the first run, for a given file.
Start(f) ==
    /\ file = f
    /\ cache = NoCache
    /\ df = <<>>
    /\ sel = NoSel
    /\ filtered_df = <<>>
    /\ stats = NoStats
    /\ pc = "start"
    /\ err = "none"
    /\ raw = <<>>
    /\ parsed = Null

Init == \E f \in {NoFile} \cup {[readable |-> TRUE, rows |-> t] : t \in RawTables} :
            Start(f)

\* Lines 16-18 and 59: df = load_and_transform_data().  st.cache_data keys
\* the entry on the function and its arguments, of which there are none: a
\* stored table is returned whatever the file now holds.  On a miss the
\* file is read; pd.read_csv raises when it cannot be.
Load ==
    /\ pc = "start"
    /\ IF cache.present
       THEN /\ df' = cache.table
            /\ pc' = "loaded"
            /\ UNCHANGED <<cache, err>>
       ELSE IF ~file.readable
       THEN /\ pc' = "error"
            /\ err' = "FileNotFoundError"
            /\ UNCHANGED <<cache, df>>
       ELSE /\ df' = LoadAndTransform(file.rows)
            /\ cache' = [present |-> TRUE, table |-> LoadAndTransform(file.rows)]
            /\ pc' = "loaded"
            /\ UNCHANGED err
    /\ UNCHANGED <<file, sel, filtered_df, stats, raw, parsed>>

\* Lines 66-105.  On an empty table Installs.min() is NaN and line 97,
\* int(NaN), raises ValueError.
BuildWidgets ==
    /\ pc = "loaded"
    /\ IF df = <<>>
       THEN /\ pc' = "error"
            /\ err' = "ValueError"
            /\ UNCHANGED sel
       ELSE /\ sel' = Widgets(sel, df)
            /\ pc' = "widgets"
            /\ UNCHANGED err
    /\ UNCHANGED <<file, cache, df, filtered_df, stats, raw, parsed>>

\* Lines 107-123.
FilterPass ==
    /\ pc = "widgets"
    /\ filtered_df' = ApplyFilters(df, sel)
    /\ df' = TableAfterFilter(df, sel)
    /\ pc' = "filtered"
    /\ UNCHANGED <<file, cache, sel, stats, err, raw, parsed>>

\* Lines 129-145 and 260-283, to the end of the script.
Summaries ==
    /\ pc = "filtered"
    /\ \E top \in (IF filtered_df = <<>> THEN {Undefined} ELSE TopCategories(filtered_df)) :
           /\ stats' = Summary(filtered_df, top)
           /\ pc' = IF Summary(filtered_df, top).raised = "none" THEN "done" ELSE "error"
           /\ err' = Summary(filtered_df, top).raised
    /\ UNCHANGED <<file, cache, df, sel, filtered_df, raw, parsed>>

\* The script's variables of the run that ended.
Rerun ==
    /\ df' = <<>>
    /\ filtered_df' = <<>>
    /\ stats' = NoStats
    /\ err' = "none"
    /\ pc' = "start"

\* The user changes one widget: Streamlit reruns the script from the top
\* with the new value.
ChangeFilter ==
    /\ pc = "done"
    /\ \E w \in OneWidgetChanges(sel, df) : sel' = w
    /\ Rerun
    /\ UNCHANGED <<file, cache, raw, parsed>>

\* The user reloads the page of a run that ended, with or without an error.
Reload ==
    /\ pc \in {"done", "error"}
    /\ Rerun
    /\ UNCHANGED <<file, cache, sel, raw, parsed>>

Next == Load \/ BuildWidgets \/ FilterPass \/ Summaries \/ ChangeFilter \/ Reload

Spec == Init /\ [][Next]_vars

\* ------------------------------------------- a session with a changing file

Readable(t) == [readable |-> TRUE, rows |-> t]

\* The versions of the file a session sees.
SessionFiles ==
    {Readable(<<RowFree>>), Readable(<<RowNoSize, RowPaid>>),
     Readable(<<RowPaid, RowNoRating>>)}

SessionInit == \E f \in SessionFiles : Start(f)

\* googleplaystore.csv is replaced on disk between two runs.
ChangeFile ==
    /\ pc \in {"done", "error"}
    /\ \E f \in SessionFiles \ {file} : file' = f
    /\ UNCHANGED <<cache, df, sel, filtered_df, stats, pc, err, raw, parsed>>

\* "Clear cache" in the app's menu: the only way the entry of line 16 goes.
ClearCache ==
    /\ pc \in {"done", "error"}
    /\ cache.present
    /\ cache' = NoCache
    /\ UNCHANGED <<file, df, sel, filtered_df, stats, pc, err, raw, parsed>>

SessionNext == Next \/ ChangeFile \/ ClearCache

SessionSpec == SessionInit /\ [][SessionNext]_vars

\* ------------------------------------------- the Installs column, cell by cell

InstallsChars == {"0", "1", ",", "+", ".", "F"}

\* Every cell of at most MaxStrLen characters whose number, if it is one,
\* fits the model's decimal places.
InstallsCells ==
    {s \in SeqsUpTo(InstallsChars, MaxStrLen) :
        FracLen(StrReplace(StrReplace(s, "+"), ",")) <= FracDigits}

ParseInit ==
    /\ raw \in InstallsCells
    /\ parsed = Null
    /\ pc = "cell"
    /\ file = NoFile
    /\ cache = NoCache
    /\ df = <<>>
    /\ sel = NoSel
    /\ filtered_df = <<>>
    /\ stats = NoStats
    /\ err = "none"

\* Lines 25-28 on one cell.
ParseCell ==
    /\ pc = "cell"
    /\ parsed' = ParseInstalls(raw)
    /\ pc' = "parsed"
    /\ UNCHANGED <<file, cache, df, sel, filtered_df, stats, err, raw>>

ParseSpec == ParseInit /\ [][ParseCell]_vars

\* ================================================================ claims

\* The run has a normalized table: the load returned.
Loaded ==
    \/ pc \in {"loaded", "widgets", "filtered", "done"}
    \/ pc = "error" /\ err = "ValueError"

\* The run has a filtered set.
Filtered == pc \in {"filtered", "done"}

\* A row meets all five constraints of the sidebar, both ends of a range
\* included, "Todas" and "Todos" constraining nothing.
Satisfies(r, w) ==
    /\ w.category = "Todas" \/ r.Category = w.category
    /\ w.app_type = "Todos" \/ r.Type = w.app_type
    /\ w.price_range[1] <= r.Price /\ r.Price <= w.price_range[2]
    /\ w.rating_range[1] <= r.Rating /\ r.Rating <= w.rating_range[2]
    /\ w.installs_range[1] <= r.Installs /\ r.Installs <= w.installs_range[2]

\* C1: the filtered set is exactly the rows of the normalized table, in
\* their order, that satisfy every constraint of the filter specification
\* at once; a value equal to a range's min or max is inside the range.
C1_FilteredIsExactlyTheMatches ==
    Filtered =>
        /\ filtered_df = SelectSeq(df, LAMBDA r : Satisfies(r, sel))
        /\ \A i \in 1..Len(df) :
               Satisfies(df[i], sel) <=>
                   \E j \in 1..Len(filtered_df) : filtered_df[j] = df[i]

\* C1's case: a category is selected, one row is kept whose installs equal
\* the range's max and whose rating equals the range's min or max, and
\* another row is left out.
C1_Witness ==
    /\ pc = "filtered"
    /\ sel.category # "Todas"
    /\ Len(filtered_df) < Len(df)
    /\ \E i \in 1..Len(filtered_df) :
           /\ filtered_df[i].Installs = sel.installs_range[2]
           /\ filtered_df[i].Rating \in {sel.rating_range[1], sel.rating_range[2]}

\* C2: the normalized table holds no two rows equal in all fields.
C2_NoDuplicateRows ==
    Loaded => \A i, j \in 1..Len(df) : i # j => df[i] # df[j]

\* A raw row that cannot be kept: its Installs or Price is not a number once
\* the decoration is removed, or its Rating is missing.
Incomplete(r) ==
    \/ ~IsDecimal(SelectSeq(r.Installs, LAMBDA c : c \notin {"+", ","}))
    \/ ~IsDecimal(SelectSeq(r.Price, LAMBDA c : c # "$"))
    \/ r.Rating = <<>>

\* C3: every row of the normalized table has installs, rating and price;
\* no row of it comes from an incomplete raw row (the apps of the raw rows
\* tell them apart); every complete raw row is represented in it, whether
\* or not its size is a number.
C3_RequiredFieldsPresent ==
    Loaded =>
        /\ \A i \in 1..Len(df) :
               df[i].Installs # Null /\ df[i].Rating # Null /\ df[i].Price # Null
        /\ \A k \in 1..Len(file.rows) :
               IF Incomplete(file.rows[k])
               THEN \A i \in 1..Len(df) : df[i].App # file.rows[k].App
               ELSE \E i \in 1..Len(df) : df[i].App = file.rows[k].App

\* C3's case: the file holds a row without rating and a complete row whose
\* size is not a number; the table holds the second, with a null size, and
\* not the first.
C3_Witness ==
    /\ pc = "loaded"
    /\ \E k \in 1..Len(file.rows) : file.rows[k] = RowNoRating
    /\ \E k \in 1..Len(file.rows) : file.rows[k] = RowNoSize
    /\ Len(df) = 1
    /\ df[1].App = "b" /\ df[1].Size = Null

\* C4: the table a run works on is the normalization of what the file holds
\* when the run loads it.
C4_LoadIsOfCurrentFile ==
    pc = "loaded" => df = LoadAndTransform(file.rows)

\* C5 as stated: on an empty filtered set all seven statistics are the
\* undefined value, and nothing raised.
C5_AllStatisticsUndefined ==
    (pc \in {"done", "error"} /\ stats.computed /\ filtered_df = <<>>) =>
        /\ stats.raised = "none"
        /\ stats.count = Null
        /\ stats.avg_rating = Null
        /\ stats.total_installs = Null
        /\ stats.paid_apps = Null
        /\ stats.top_category = Undefined
        /\ stats.most_expensive = NotComputed
        /\ stats.best_rated = NotComputed

\* C5, amended: on an empty filtered set the pass ends without raising; the
\* mean rating is NaN; the top category, the max-price record and the
\* max-rating record are not computed; the record count, the sum of
\* installs and the Paid count are 0.
C5_EmptySetStatistics ==
    (pc \in {"done", "error"} /\ stats.computed /\ filtered_df = <<>>) =>
        /\ pc = "done" /\ err = "none" /\ stats.raised = "none"
        /\ stats.count = 0
        /\ stats.avg_rating = Null
        /\ stats.total_installs = 0
        /\ stats.paid_apps = 0
        /\ stats.top_category = Undefined
        /\ stats.most_expensive = NotComputed
        /\ stats.best_rated = NotComputed

\* C5's case: a run over a non-empty table whose filters match nothing has
\* shown its statistics.
C5_Witness ==
    pc = "done" /\ stats.computed /\ df # <<>> /\ filtered_df = <<>>

\* C6: a run ends in an exception only when the file could not be read.
C6_OnlyUnreadableAborts ==
    pc = "error" => ~file.readable

\* The cell has the form <digits with commas>+.
DigitsWithCommasPlus(s) ==
    /\ Len(s) >= 2
    /\ s[Len(s)] = "+"
    /\ \A i \in 1..(Len(s) - 1) : s[i] \in Digits \cup {","}
    /\ \E i \in 1..(Len(s) - 1) : s[i] \in Digits

OnlyDigits(s) == SelectSeq(s, LAMBDA c : c \in Digits)

\* C7 as stated: one trailing '+' and the ',' are removed, and what is left
\* is a number only when it is an integer literal.
C7_TrailingPlusAndInteger ==
    pc = "parsed" =>
        LET rest == SelectSeq(StripTrailing(raw, "+"), LAMBDA c : c # ",")
        IN IF rest # <<>> /\ \A i \in 1..Len(rest) : rest[i] \in Digits
           THEN parsed = DigitsValue(rest) * Scale
           ELSE parsed = Null

\* C7, amended: every '+' and every ',' is removed, wherever it stands, and
\* what is left is parsed as a number, decimals included: a cell of the form
\* <digits with commas>+ gives the integer value of its digits, and a cell
\* whose remainder is not a number gives null (and only such a cell does).
C7_EveryPlusAndCommaRemoved ==
    pc = "parsed" =>
        LET rest == SelectSeq(raw, LAMBDA c : c \notin {"+", ","})
        IN /\ DigitsWithCommasPlus(raw) => parsed = DigitsValue(OnlyDigits(raw)) * Scale
           /\ ~IsDecimal(rest) <=> parsed = Null
           /\ (rest # <<>> /\ \A i \in 1..Len(rest) : rest[i] \in Digits)
                  => parsed = DigitsValue(rest) * Scale

\* C7's case: "1,0+" has been parsed to 10.
C7_Witness ==
    pc = "parsed" /\ raw = <<"1", ",", "0", "+">> /\ parsed = 10 * Scale

TypeFollowsPrice(r) ==
    /\ r.Type \in {"Free", "Paid"}
    /\ r.Type = "Paid" <=> (r.Price # Null /\ r.Price > 0)

\* C8: in every row of the normalized table, the cached table and the
\* filtered set, at every point of a session, type is Paid exactly when
\* price is greater than 0, and Free otherwise.
C8_TypeFollowsPrice ==
    /\ \A i \in 1..Len(df) : TypeFollowsPrice(df[i])
    /\ \A i \in 1..Len(cache.table) : TypeFollowsPrice(cache.table[i])
    /\ \A i \in 1..Len(filtered_df) : TypeFollowsPrice(filtered_df[i])

\* C8's case: the table holds a Free row of price 0 and the filtered set a
\* Paid row of positive price.
C8_Witness ==
    /\ Filtered
    /\ \E i \in 1..Len(df) : df[i].Type = "Free" /\ df[i].Price = 0
    /\ \E i \in 1..Len(filtered_df) :
           filtered_df[i].Type = "Paid" /\ filtered_df[i].Price > 0

\* C9: no step of a run writes to the normalized table once it is loaded,
\* the stored table never changes, and every run works on the stored
\* table: whatever the filter changes and passes, the table is the same.
C9_TableUnchanged ==
    [][ /\ cache.present => cache' = cache
        /\ pc \in {"loaded", "widgets", "filtered"} => df' = df
        /\ pc' \in {"loaded", "widgets", "filtered", "done"} => df' = cache'.table
      ]_vars

\* C9's case: a later run, under changed filters, has derived a proper
\* subset, and the table is still the stored one.
C9_Witness ==
    /\ pc = "done"
    /\ sel.app_type # "Todos"
    /\ sel.rating_range # <<DefaultMinRating * Scale, MaxRating * Scale>>
    /\ filtered_df # <<>>
    /\ Len(filtered_df) < Len(df)
    /\ df = cache.table

Constraints == {"category", "app_type", "price", "rating", "installs"}

\* The filter specification that keeps w's constraints on the fields in F
\* and constrains nothing else: the wildcards, and the sliders at their
\* full extent.
Only(w, F) ==
    [w EXCEPT
        !.category = IF "category" \in F THEN @ ELSE "Todas",
        !.app_type = IF "app_type" \in F THEN @ ELSE "Todos",
        !.price_range = IF "price" \in F THEN @ ELSE <<0, w.max_price>>,
        !.rating_range = IF "rating" \in F THEN @ ELSE <<0, MaxRating * Scale>>,
        !.installs_range = IF "installs" \in F THEN @
                           ELSE <<w.min_installs, w.max_installs>>]

\* C10: for any two constraints of the filter specification, applying one
\* and then the other to its result, in either order, gives what applying
\* both in one pass gives; and applying the whole specification to its own
\* result gives that result.
C10_IdempotentAndCommutative ==
    Filtered =>
        /\ ApplyFilters(filtered_df, sel) = filtered_df
        /\ \A a, b \in Constraints :
               a # b =>
                   ApplyFilters(ApplyFilters(df, Only(sel, {a})), Only(sel, {b}))
                       = ApplyFilters(df, Only(sel, {a, b}))

\* C10's case: the category and the rating range each leave out a row of
\* the table, and a row passes both.
C10_Witness ==
    /\ pc = "filtered"
    /\ Len(ApplyFilters(df, Only(sel, {"category"}))) < Len(df)
    /\ Len(ApplyFilters(df, Only(sel, {"rating"}))) < Len(df)
    /\ ApplyFilters(df, Only(sel, {"category", "rating"})) # <<>>

====
